---- MODULE Spec2Model ----
(***************************************************************************)
(* A model of spotify_bot.py: the link validator (SPOTIFY_URL_PATTERN),    *)
(* the two-phase conversion client (call_download_api) and the handlers    *)
(* handle_message / process_spotify_link, run as coroutines of one asyncio *)
(* event loop.                                                             *)
(*                                                                         *)
(* Text is a sequence of one-character strings.  An optional value is a    *)
(* sequence of length at most one: <<>> is Python's None, <<v>> is v.      *)
(***************************************************************************)
EXTENDS Integers, Sequences, FiniteSets, TLC

VARIABLES
    pc,            \* per task: the position of its coroutine
    loop_thread,   \* the task that occupies the event-loop thread, or IDLE
    user_text,     \* update.message.text
    spotify_url,   \* the argument of call_download_api
    response_json, \* optional: the outcome of the Phase 1 POST
    file_response, \* optional: the outcome of the Phase 2 GET
    track_name,    \* optional: the local track_name of call_download_api
    result,        \* optional: the pair returned by call_download_api
    buffer,        \* the BytesIO: "none" (never created), "open", "closed"
    log            \* per task: the calls it issued and their outcomes, in order

vars == <<pc, loop_thread, user_text, spotify_url, response_json,
          file_response, track_name, result, buffer, log>>

----------------------------------------------------------------------------
(* Characters and literals                                                 *)

Lower == {"a","b","c","d","e","f","g","h","i","j","k","l","m",
          "n","o","p","q","r","s","t","u","v","w","x","y","z"}
Upper == {"A","B","C","D","E","F","G","H","I","J","K","L","M",
          "N","O","P","Q","R","S","T","U","V","W","X","Y","Z"}
Digit == {"0","1","2","3","4","5","6","7","8","9"}

\* the character class [a-zA-Z0-9] of SPOTIFY_URL_PATTERN
Alnum == Lower \cup Upper \cup Digit

HTTP     == <<"h","t","t","p">>
LetterS  == <<"s">>
HOST     == <<":","/","/","o","p","e","n",".","s","p","o","t","i","f","y",
              ".","c","o","m","/">>
\* a host that is not the service's: an x where the pattern has \.
XHOST    == <<":","/","/","o","p","e","n","x","s","p","o","t","i","f","y",
              ".","c","o","m","/">>
TRACK    == <<"t","r","a","c","k">>
ALBUM    == <<"a","l","b","u","m">>
PLAYLIST == <<"p","l","a","y","l","i","s","t">>
SLASH    == <<"/">>
SI       == <<"?","s","i","=">>
ND       == <<"&","n","d","=","1">>

None == <<>>
Some(v) == <<v>>

----------------------------------------------------------------------------
(* SPOTIFY_URL_PATTERN.search, as Python's backtracking matcher runs it    *)

\* the literal lit stands in s at position i
Lit(s, i, lit) ==
    /\ i + Len(lit) - 1 <= Len(s)
    /\ \A k \in 1..Len(lit) : s[i + k - 1] = lit[k]

\* the first position after the longest run of [a-zA-Z0-9] that starts at i
RECURSIVE AlnumRun(_, _)
AlnumRun(s, i) ==
    IF i <= Len(s) /\ s[i] \in Alnum THEN AlnumRun(s, i + 1) ELSE i

\* [a-zA-Z0-9]+(\?si=[a-zA-Z0-9]+)?(&nd=1)? at position p: the position
\* after the match, 0 when there is none.  Both quantifiers are greedy and
\* everything after the identifier is optional, so the first attempt of the
\* matcher (the longest runs, each optional group taken when it fits) succeeds.
MatchTail(s, p) ==
    LET e1 == AlnumRun(s, p)
    IN  IF e1 = p THEN 0
        ELSE LET v  == e1 + Len(SI)
                 e2 == IF Lit(s, e1, SI) /\ AlnumRun(s, v) > v
                       THEN AlnumRun(s, v) ELSE e1
             IN  IF Lit(s, e2, ND) THEN e2 + Len(ND) ELSE e2

\* (track|album|playlist)/... at position k: the alternatives in order
MatchKind(s, k) ==
    LET try(kind) == IF Lit(s, k, kind \o SLASH)
                     THEN MatchTail(s, k + Len(kind) + 1) ELSE 0
    IN  IF try(TRACK) # 0 THEN try(TRACK)
        ELSE IF try(ALBUM) # 0 THEN try(ALBUM)
        ELSE try(PLAYLIST)

\* (a pattern whose dots are not escaped: any character passes for a dot)
MatchRest_UnescapedDot(s, p) ==
    IF Lit(s, p, HOST) \/ Lit(s, p, XHOST) THEN MatchKind(s, p + Len(HOST)) ELSE 0

\* ://open\.spotify\.com/ and the rest, at position p
MatchRest(s, p) ==
    IF Lit(s, p, HOST) THEN MatchKind(s, p + Len(HOST)) ELSE 0

\* the whole pattern at position i: https? takes the s first when it is there
MatchAt(s, i) ==
    IF ~Lit(s, i, HTTP) THEN 0
    ELSE LET p     == i + Len(HTTP)
             withS == IF Lit(s, p, LetterS) THEN MatchRest(s, p + 1) ELSE 0
         IN  IF withS # 0 THEN withS ELSE MatchRest(s, p)

\* (the whole text handed on instead of the match)
MatchGroup0_WholeText(s, i) == s

\* match.group(0): the matched substring
MatchGroup0(s, i) == SubSeq(s, i, MatchAt(s, i) - 1)

\* (the last match taken instead of the first)
PatternSearch_LastMatch(s) ==
    LET starts == {i \in 1..Len(s) : MatchAt(s, i) # 0}
    IN  IF starts = {} THEN None
        ELSE LET i == CHOOSE j \in starts : \A k \in starts : j >= k
             IN  Some(MatchGroup0(s, i))

\* SPOTIFY_URL_PATTERN.search(user_text): the leftmost match, or None
PatternSearch(s) ==
    LET starts == {i \in 1..Len(s) : MatchAt(s, i) # 0}
    IN  IF starts = {} THEN None
        ELSE LET i == CHOOSE j \in starts : \A k \in starts : j <= k
             IN  Some(MatchGroup0(s, i))

----------------------------------------------------------------------------
(* The track name of call_download_api (lines 72-76)                       *)

\* Python's str.split(sep) for a one-character separator
RECURSIVE Split(_, _)
Split(s, sep) ==
    LET cuts == {i \in 1..Len(s) : s[i] = sep}
    IN  IF cuts = {} THEN <<s>>
        ELSE LET i == CHOOSE j \in cuts : \A k \in cuts : j <= k
             IN  <<SubSeq(s, 1, i - 1)>> \o Split(SubSeq(s, i + 1, Len(s)), sep)

LABEL    == <<"T","r","a","c","k","_">>
FALLBACK == <<"D","o","w","n","l","o","a","d","e","d","_","T","r","a","c","k">>
MP3      == <<".","m","p","3">>

\* spotify_url.split('/')[-1].split('?')[0], or None where an index raises
\* (an IndexError on an empty list)
TrackId(url) ==
    LET segs == Split(url, "/")
    IN  IF segs = <<>> THEN None
        ELSE LET parts == Split(segs[Len(segs)], "?")
             IN  IF parts = <<>> THEN None ELSE Some(parts[1])

\* try: track_name = f"Track_{track_id}"  except Exception: "Downloaded_Track"
TrackName(url) ==
    IF TrackId(url) = None THEN FALLBACK ELSE LABEL \o TrackId(url)[1]

----------------------------------------------------------------------------
(* What the remote conversion service and the network can answer           *)

\* A JSON value of the Phase 1 body, as far as the client inspects it: a key
\* that is missing (dict.get gives None), false, true, the number 1, the
\* empty string, a non-empty string.
ABSENT == "absent"
JsonErrorValues == {ABSENT, "false", "true", "1"}
JsonTextValues  == {ABSENT, "", "text"}

\* Python truthiness of such a value (`not v` is ~Truthy(v))
Truthy(v) == v \in {"true", "1", "text"}

\* `v is True`: only the boolean true
IsTrue(v) == v = "true"

\* requests.post(..., timeout=30), raise_for_status() and json():
\*   Timeout          the 30 s timeout expired
\*   ConnectionError  any other transport error (a RequestException)
\*   HTTPError        raise_for_status() on a non-success status
\*   JSONDecodeError  json() on a body that is not JSON (requests' own
\*                    JSONDecodeError, a RequestException)
\*   NonObject        json() gave a list, string, number or null: .get raises
\*                    AttributeError
\*   Object           json() gave an object with these fields
Phase1Failure(k) == [kind |-> k, error |-> ABSENT, url |-> ABSENT, payload |-> ABSENT]
Phase1Outcomes ==
    {Phase1Failure(k) :
        k \in {"Timeout", "ConnectionError", "HTTPError", "JSONDecodeError", "NonObject"}}
    \cup [kind : {"Object"}, error : JsonErrorValues,
          url : JsonTextValues, payload : JsonTextValues]

MiB == 1024 * 1024

\* the sizes of the Phase 2 body, in bytes
BodySizes == {0, 1, 2 * MiB, 50 * MiB - 1, 50 * MiB, 50 * MiB + 1}

\* requests.get(..., stream=True, timeout=60) and raise_for_status().  With
\* stream=True the body is not read by requests.get: it is read when .content
\* or .text is first used, and `readable` says whether that read reaches the
\* end of the body or breaks with a transport error.
Phase2Outcomes ==
    [kind : {"Timeout", "ConnectionError"}, readable : {FALSE}, size : {0}]
    \cup [kind : {"HTTPError"}, readable : BOOLEAN, size : {0}]
    \cup [kind : {"OK"}, readable : {FALSE}, size : {0}]
    \cup [kind : {"OK"}, readable : {TRUE}, size : BodySizes]

\* (the clause for RequestException placed first: it takes the timeouts too,
\* Timeout being one of its subclasses)
ExceptClause_RequestExceptionFirst(exc) ==
    IF exc \in {"Timeout", "ConnectionError", "HTTPError", "JSONDecodeError"}
    THEN "except:RequestException"
    ELSE "except:Exception"

\* the except clause of call_download_api (lines 115-126) that handles an
\* exception raised inside the try block
ExceptClause(exc) ==
    IF exc = "Timeout" THEN "except:Timeout"
    ELSE IF exc \in {"ConnectionError", "HTTPError", "JSONDecodeError"}
         THEN "except:RequestException"
         ELSE "except:Exception"

\* file_size_mb = len(file_content) / (1024 * 1024): the quotient, kept exact
\* (a division of an integer below 2^53 by a power of two is exact in a float)
FileSizeMb(n) == [num |-> n, den |-> MiB]

\* (the ceiling itself refused)
TooLarge_AtCeiling(mb) == mb.num >= 50 * mb.den

\* file_size_mb > 50
TooLarge(mb) == mb.num > 50 * mb.den

\* (the error flag not looked at)
Step1Failed_UrlOnly(r) == ~Truthy(r.url)

\* the first Phase 1 check: response_json.get('error') is True
\*                          or not response_json.get('url')
Step1Failed(r) == IsTrue(r.error) \/ ~Truthy(r.url)

\* the second check: not intermediate_url or not intermediate_payload
MissingUrlOrPayload(r) == ~Truthy(r.url) \/ ~Truthy(r.payload)

NonePair == [audio_file |-> None, track_name |-> None]

\* BytesIO(file_content) with audio_file.name set, and the returned pair
AudioFile(n, name) == [size |-> n, name |-> name \o MP3]
Payload(n, name) == [audio_file |-> Some(AudioFile(n, name)), track_name |-> Some(name)]

\* `if audio_file:` in process_spotify_link: a BytesIO object is truthy
\* whatever it holds, None is not
AudioFileTruthy(res) == res.audio_file # None

\* (the close placed after the try statement instead of in its finally)
BufferAfterTry_CloseAfterTry(how) == IF how = "report_failed" THEN "open" ELSE "closed"

\* finally: audio_file.close() runs on every way out of the try statement
\* (how: "sent", "reported", "report_failed")
BufferAfterTry(how) == "closed"

\* (the except clause editing the status to the success text)
ExceptReport_SuccessEdit == "edit:success"

\* (the except clause reusing the download-failed edit)
ExceptReport_DownloadFailed == "edit:download_failed"

\* the call of the except clause of process_spotify_link (lines 181-185):
\* the reply that the file was downloaded but not uploaded
ExceptReport == "reply_text:upload_failed"

\* (the else branch answering with the reply of the except clause)
ElseReport_UploadFailedReply == "reply_text:upload_failed"

\* the call of the else branch (lines 188-198): the download-failed edit
ElseReport == "edit:download_failed"

----------------------------------------------------------------------------
(* Tasks and the event loop                                                *)

Tasks == {"m1", "m2"}
IDLE == "idle"

Append1(t, e)     == [log EXCEPT ![t] = Append(@, e)]
Append2(t, e, f)  == [log EXCEPT ![t] = @ \o <<e, f>>]
Has(t, e) == \E i \in DOMAIN log[t] : log[t][i] = e
Count(t, e) == Cardinality({i \in DOMAIN log[t] : log[t][i] = e})

\* A coroutine runs on the loop thread from one suspension to the next.  A
\* task that is suspended in an await of a Telegram call, or not started,
\* resumes only when the loop thread is free.
\* A handler may start whenever the loop thread is free: the most
\* concurrency the dispatch of inbound messages can give (the Application of
\* line 214, built with its defaults, gives no more).
CanResume(t) == loop_thread = IDLE
Running(t) == loop_thread = t

----------------------------------------------------------------------------
(* handle_message (lines 138-152)                                          *)

HandleMessage(t) ==
    /\ pc[t] = "dispatched"
    /\ CanResume(t)
    /\ LET match == PatternSearch(user_text[t])
       IN  IF user_text[t] = <<>>
           THEN /\ pc' = [pc EXCEPT ![t] = "done"]
                /\ UNCHANGED <<spotify_url, log>>
           ELSE IF match # None
           THEN \* process_spotify_link: await update.message.reply_text(...)
                /\ spotify_url' = [spotify_url EXCEPT ![t] = match[1]]
                /\ log' = Append1(t, "reply_text:status")
                /\ pc' = [pc EXCEPT ![t] = "await_status"]
           ELSE /\ log' = Append1(t, "reply_text:not_a_link")
                /\ pc' = [pc EXCEPT ![t] = "await_not_a_link"]
                /\ UNCHANGED spotify_url
    /\ UNCHANGED <<loop_thread, user_text, response_json, file_response,
                   track_name, result, buffer>>

\* the reply of lines 149-152 completes or raises
NotALinkReplyDone(t) ==
    /\ pc[t] = "await_not_a_link"
    /\ CanResume(t)
    /\ \E ok \in BOOLEAN :
          IF ok
          THEN /\ log' = Append1(t, "reply_text:not_a_link:ok")
               /\ pc' = [pc EXCEPT ![t] = "done"]
          ELSE /\ log' = Append1(t, "reply_text:not_a_link:failed")
               /\ pc' = [pc EXCEPT ![t] = "crashed"]
    /\ UNCHANGED <<loop_thread, user_text, spotify_url, response_json,
                   file_response, track_name, result, buffer>>

----------------------------------------------------------------------------
(* process_spotify_link (lines 154-198) and call_download_api (33-126)     *)

\* the status reply of lines 157-159 completes or raises; on completion the
\* coroutine goes on, on the loop thread, into call_download_api
StatusReplyDone(t) ==
    /\ pc[t] = "await_status"
    /\ CanResume(t)
    /\ \E ok \in BOOLEAN :
          IF ok
          THEN /\ log' = Append1(t, "reply_text:status:ok")
               /\ pc' = [pc EXCEPT ![t] = "api_entry"]
               /\ loop_thread' = t
          ELSE /\ log' = Append1(t, "reply_text:status:failed")
               /\ pc' = [pc EXCEPT ![t] = "crashed"]
               /\ UNCHANGED loop_thread
    /\ UNCHANGED <<user_text, spotify_url, response_json, file_response,
                   track_name, result, buffer>>

\* lines 41-60: requests.post is a synchronous call: the coroutine does not
\* await, the loop thread stays with this task until the call returns
CallDownloadApi(t) ==
    /\ pc[t] = "api_entry"
    /\ Running(t)
    /\ log' = Append1(t, "post")
    /\ pc' = [pc EXCEPT ![t] = "phase1"]
    /\ UNCHANGED <<loop_thread, user_text, spotify_url, response_json,
                   file_response, track_name, result, buffer>>

\* lines 54-95: the POST returns or raises; the checks on its body; the GET
Phase1Return(t) ==
    /\ pc[t] = "phase1"
    /\ Running(t)
    /\ \E r \in Phase1Outcomes :
          /\ response_json' = [response_json EXCEPT ![t] = Some(r)]
          /\ IF r.kind # "Object"
             THEN /\ log' = Append1(t, ExceptClause(IF r.kind = "NonObject"
                                                    THEN "AttributeError" ELSE r.kind))
                  /\ result' = [result EXCEPT ![t] = Some(NonePair)]
                  /\ pc' = [pc EXCEPT ![t] = "api_returned"]
                  /\ UNCHANGED track_name
             ELSE IF Step1Failed(r)
             THEN /\ log' = Append1(t, "error:step1")
                  /\ result' = [result EXCEPT ![t] = Some(NonePair)]
                  /\ pc' = [pc EXCEPT ![t] = "api_returned"]
                  /\ UNCHANGED track_name
             ELSE /\ track_name' = [track_name EXCEPT ![t] = Some(TrackName(spotify_url[t]))]
                  /\ IF MissingUrlOrPayload(r)
                     THEN /\ log' = Append1(t, "error:missing")
                          /\ result' = [result EXCEPT ![t] = Some(NonePair)]
                          /\ pc' = [pc EXCEPT ![t] = "api_returned"]
                     ELSE /\ log' = Append1(t, "get")
                          /\ pc' = [pc EXCEPT ![t] = "phase2"]
                          /\ UNCHANGED result
    /\ UNCHANGED <<loop_thread, user_text, spotify_url, file_response, buffer>>

\* lines 90-126: the GET returns or raises; the size check; the payload
Phase2Return(t) ==
    /\ pc[t] = "phase2"
    /\ Running(t)
    /\ \E f \in Phase2Outcomes :
          /\ file_response' = [file_response EXCEPT ![t] = Some(f)]
          /\ IF f.kind = "HTTPError" /\ ~f.readable
             THEN \* line 122 reads e.response.text inside the except clause:
                  \* the read of the streamed body raises, and nothing is
                  \* left to catch it
                  /\ log' = Append1(t, ExceptClause(f.kind))
                  /\ pc' = [pc EXCEPT ![t] = "api_raised"]
                  /\ UNCHANGED <<result, buffer>>
             ELSE IF f.kind # "OK"
             THEN /\ log' = Append1(t, ExceptClause(f.kind))
                  /\ result' = [result EXCEPT ![t] = Some(NonePair)]
                  /\ pc' = [pc EXCEPT ![t] = "api_returned"]
                  /\ UNCHANGED buffer
             ELSE IF ~f.readable
             THEN \* line 98: file_response.content raises a RequestException
                  /\ log' = Append1(t, ExceptClause("ConnectionError"))
                  /\ result' = [result EXCEPT ![t] = Some(NonePair)]
                  /\ pc' = [pc EXCEPT ![t] = "api_returned"]
                  /\ UNCHANGED buffer
             ELSE IF TooLarge(FileSizeMb(f.size))
             THEN /\ log' = Append1(t, "error:too_large")
                  /\ result' = [result EXCEPT ![t] = Some(NonePair)]
                  /\ pc' = [pc EXCEPT ![t] = "api_returned"]
                  /\ UNCHANGED buffer
             ELSE /\ buffer' = [buffer EXCEPT ![t] = "open"]
                  /\ result' = [result EXCEPT ![t] = Some(Payload(f.size, track_name[t][1]))]
                  /\ pc' = [pc EXCEPT ![t] = "api_returned"]
                  /\ UNCHANGED log
    /\ UNCHANGED <<loop_thread, user_text, spotify_url, response_json, track_name>>

\* lines 161-166 and 188-198: the client has returned (or raised) into
\* process_spotify_link, which awaits the upload or the failure edit
ProcessResult(t) ==
    /\ pc[t] \in {"api_returned", "api_raised"}
    /\ Running(t)
    /\ loop_thread' = IDLE
    /\ IF pc[t] = "api_raised"
       THEN /\ pc' = [pc EXCEPT ![t] = "crashed"]
            /\ UNCHANGED log
       ELSE IF AudioFileTruthy(result[t][1])
       THEN /\ log' = Append1(t, "reply_audio")
            /\ pc' = [pc EXCEPT ![t] = "await_audio"]
       ELSE /\ log' = Append1(t, ElseReport)
            /\ pc' = [pc EXCEPT ![t] = "await_failed_edit"]
    /\ UNCHANGED <<user_text, spotify_url, response_json, file_response,
                   track_name, result, buffer>>

\* lines 166-185: reply_audio completes (then the success edit is awaited)
\* or raises (then the except clause awaits the upload-failed reply)
AudioDone(t) ==
    /\ pc[t] = "await_audio"
    /\ CanResume(t)
    /\ \E ok \in BOOLEAN :
          IF ok
          THEN /\ log' = Append2(t, "reply_audio:ok", "edit:success")
               /\ pc' = [pc EXCEPT ![t] = "await_success_edit"]
          ELSE /\ log' = Append2(t, "reply_audio:failed", ExceptReport)
               /\ pc' = [pc EXCEPT ![t] = "await_upload_failed_reply"]
    /\ UNCHANGED <<loop_thread, user_text, spotify_url, response_json,
                   file_response, track_name, result, buffer>>

\* lines 175-187: the success edit completes (finally closes the buffer) or
\* raises inside the same try (the except clause awaits the upload-failed reply)
SuccessEditDone(t) ==
    /\ pc[t] = "await_success_edit"
    /\ CanResume(t)
    /\ \E ok \in BOOLEAN :
          IF ok
          THEN /\ log' = Append2(t, "edit:success:ok", "close")
               /\ buffer' = [buffer EXCEPT ![t] = BufferAfterTry("sent")]
               /\ pc' = [pc EXCEPT ![t] = "done"]
          ELSE /\ log' = Append2(t, "edit:success:failed", ExceptReport)
               /\ pc' = [pc EXCEPT ![t] = "await_upload_failed_reply"]
               /\ UNCHANGED buffer
    /\ UNCHANGED <<loop_thread, user_text, spotify_url, response_json,
                   file_response, track_name, result>>

\* lines 183-187: the upload-failed reply completes or raises; either way the
\* finally clause runs; an exception of the reply leaves the handler
UploadFailedReplyDone(t) ==
    /\ pc[t] = "await_upload_failed_reply"
    /\ CanResume(t)
    /\ \E ok \in BOOLEAN :
          IF ok
          THEN /\ log' = Append1(t, "reply_text:upload_failed:ok")
               /\ buffer' = [buffer EXCEPT ![t] = BufferAfterTry("reported")]
               /\ pc' = [pc EXCEPT ![t] = "done"]
          ELSE /\ log' = Append1(t, "reply_text:upload_failed:failed")
               /\ buffer' = [buffer EXCEPT ![t] = BufferAfterTry("report_failed")]
               /\ pc' = [pc EXCEPT ![t] = "crashed"]
    /\ UNCHANGED <<loop_thread, user_text, spotify_url, response_json,
                   file_response, track_name, result>>

\* lines 190-198: the download-failed edit completes or raises
FailedEditDone(t) ==
    /\ pc[t] = "await_failed_edit"
    /\ CanResume(t)
    /\ \E ok \in BOOLEAN :
          IF ok
          THEN /\ log' = Append1(t, "edit:download_failed:ok")
               /\ pc' = [pc EXCEPT ![t] = "done"]
          ELSE /\ log' = Append1(t, "edit:download_failed:failed")
               /\ pc' = [pc EXCEPT ![t] = "crashed"]
    /\ UNCHANGED <<loop_thread, user_text, spotify_url, response_json,
                   file_response, track_name, result, buffer>>

----------------------------------------------------------------------------
(* Inbound texts, source URLs, and the specifications                      *)

HTTPS  == HTTP \o LetterS
ARTIST == <<"a","r","t","i","s","t">>
ABC123 == <<"a","b","c","1","2","3">>
XYZ789 == <<"x","y","z","7","8","9">>
A_B    == <<"a","-","b">>
LOOK   == <<"s","e","e"," ">>
THANKS == <<" ","t","h","x">>
HELLO  == <<"h","e","l","l","o">>

\* a link without its scheme inside a sentence
NO_SCHEME ==
    <<"c","h","e","c","k"," ","t","h","i","s"," ","o","u","t"," ","o",
      "p","e","n",".","s","p","o","t","i","f","y",".","c","o","m","/",
      "t","r","a","c","k","/","a","b","c","1","2","3","?","s","i","=",
      "x","y","z"," ","a","n","d"," ","m","o","r","e"," ","t","e","x",
      "t">>

\* the identifier of a real track
LONG_ID ==
    <<"4","u","L","U","6","h","M","C","j","M","I","7","5","M","1","A",
      "2","t","K","U","Q","C">>

\* the texts of inbound messages: the empty text, a text without any link,
\* and links put together from right and wrong parts, alone or inside a
\* sentence
Texts ==
    {<<>>, HELLO, NO_SCHEME,
     HTTPS \o HOST \o TRACK \o SLASH \o LONG_ID,
     \* two links, and a link right after a broken one
     HTTPS \o HOST \o ALBUM \o SLASH \o XYZ789 \o THANKS \o HTTP \o HOST \o TRACK \o SLASH \o ABC123,
     HTTP \o HTTPS \o HOST \o PLAYLIST \o SLASH \o ABC123 \o ND \o ND}
    \cup {pre \o sch \o host \o kind \o SLASH \o id \o si \o nd \o post :
            pre \in {<<>>, LOOK}, sch \in {HTTP, HTTPS, <<>>},
            host \in {HOST, XHOST}, kind \in {TRACK, PLAYLIST, ARTIST},
            id \in {<<>>, ABC123, A_B}, si \in {<<>>, SI, SI \o XYZ789},
            nd \in {<<>>, ND}, post \in {<<>>, THANKS}}

\* the texts of the messages of the run with two concurrent messages
LoopTexts == {<<>>, HELLO, HTTPS \o HOST \o TRACK \o SLASH \o ABC123}

\* all strings over alphabet of length at most n
RECURSIVE Strings(_, _)
Strings(alphabet, n) ==
    IF n = 0 THEN {<<>>}
    ELSE LET shorter == Strings(alphabet, n - 1)
         IN  shorter \cup {Append(w, c) : w \in shorter, c \in alphabet}

MaxUrlLen == 3

\* the source URLs of a direct call of call_download_api: every short string
\* over the separators of the name derivation and two other characters, and
\* two full links
Urls ==
    Strings({"/", "?", "x", "7"}, MaxUrlLen)
    \cup {HTTPS \o HOST \o TRACK \o SLASH \o XYZ789,
          HTTPS \o HOST \o TRACK \o SLASH \o XYZ789 \o SI \o ABC123}

NoTask == [t \in Tasks |-> None]

\* the messages in msgs are dispatched, each with a text of texts
InitMessages(msgs, texts) ==
    /\ pc = [t \in Tasks |-> IF t \in msgs THEN "dispatched" ELSE "absent"]
    /\ loop_thread = IDLE
    /\ user_text \in [Tasks -> texts]
    /\ \A t \in Tasks \ msgs : user_text[t] = <<>>
    /\ spotify_url = [t \in Tasks |-> <<>>]
    /\ response_json = NoTask
    /\ file_response = NoTask
    /\ track_name = NoTask
    /\ result = NoTask
    /\ buffer = [t \in Tasks |-> "none"]
    /\ log = [t \in Tasks |-> <<>>]

\* one inbound message.  The empty text is among the texts: the filter of
\* line 218 passes no such message, and lines 141-142 say what the handler
\* does when it is called with one all the same.
Init == InitMessages({"m1"}, Texts)

\* two inbound messages, dispatched concurrently
InitLoop == InitMessages(Tasks, LoopTexts)

\* call_download_api called on its own with any source URL
InitApi ==
    /\ pc = [t \in Tasks |-> IF t = "m1" THEN "api_entry" ELSE "absent"]
    /\ loop_thread = "m1"
    /\ user_text = [t \in Tasks |-> <<>>]
    /\ spotify_url \in [Tasks -> Urls]
    /\ \A t \in Tasks \ {"m1"} : spotify_url[t] = <<>>
    /\ response_json = NoTask
    /\ file_response = NoTask
    /\ track_name = NoTask
    /\ result = NoTask
    /\ buffer = [t \in Tasks |-> "none"]
    /\ log = [t \in Tasks |-> <<>>]

Next ==
    \E t \in Tasks :
        \/ HandleMessage(t)
        \/ NotALinkReplyDone(t)
        \/ StatusReplyDone(t)
        \/ CallDownloadApi(t)
        \/ Phase1Return(t)
        \/ Phase2Return(t)
        \/ ProcessResult(t)
        \/ AudioDone(t)
        \/ SuccessEditDone(t)
        \/ UploadFailedReplyDone(t)
        \/ FailedEditDone(t)

NextApi ==
    \E t \in Tasks :
        \/ CallDownloadApi(t)
        \/ Phase1Return(t)
        \/ Phase2Return(t)

Spec == Init /\ [][Next]_vars
SpecLoop == InitLoop /\ [][Next]_vars
SpecApi == InitApi /\ [][NextApi]_vars

----------------------------------------------------------------------------
(* Vocabulary of the properties                                            *)

\* the URL grammar, stated as the shape of a whole string:
\* scheme ://open.spotify.com/ kind / id [?si= id] [&nd=1]
InGrammar(u) ==
    \E sch \in {HTTP, HTTPS}, kind \in {TRACK, ALBUM, PLAYLIST}, nd \in {<<>>, ND} :
        LET head == sch \o HOST \o kind \o SLASH
            h    == Len(head)
            body == Len(u) - h - Len(nd)
        IN  /\ body >= 1
            /\ SubSeq(u, 1, h) = head
            /\ SubSeq(u, h + body + 1, Len(u)) = nd
            /\ \E n \in 1..body :
                  /\ \A k \in (h + 1)..(h + n) : u[k] \in Alnum
                  /\ \/ n = body
                     \/ /\ body - n > Len(SI)
                        /\ SubSeq(u, h + n + 1, h + n + Len(SI)) = SI
                        /\ \A k \in (h + n + Len(SI) + 1)..(h + body) : u[k] \in Alnum

IsSubstring(sub, s) ==
    \E i \in 1..(Len(s) - Len(sub) + 1) : SubSeq(s, i, i + Len(sub) - 1) = sub

\* some substring of the text is in the grammar
ContainsLink(text) ==
    \E i \in 1..Len(text) :
        /\ Lit(text, i, HTTP)
        /\ \E j \in i..Len(text) : InGrammar(SubSeq(text, i, j))

\* call_download_api has returned a pair to its caller
Returned(t) == result[t] # None
ReturnedPayload(t) == Returned(t) /\ result[t][1].audio_file # None
ReturnedAbsence(t) == Returned(t) /\ result[t][1] = NonePair

\* the handler has ended, by returning or by an exception that left it
Ended(t) == pc[t] \in {"done", "crashed"}

----------------------------------------------------------------------------
(* C1 .. C10                                                               *)

\* C1: when the Phase 1 body carries error: true, or has no url, or has no
\* payload, the Phase 2 GET is never issued in that invocation and the
\* client returns (None, None).
C1_Phase1FailureSkipsPhase2 ==
    \A t \in Tasks :
        (/\ response_json[t] # None
         /\ response_json[t][1].kind = "Object"
         /\ \/ response_json[t][1].error = "true"
            \/ response_json[t][1].url = ABSENT
            \/ response_json[t][1].payload = ABSENT)
        => /\ ~Has(t, "get")
           /\ file_response[t] = None
           /\ pc[t] = "api_returned"
           /\ ReturnedAbsence(t)

\* the body says error: true and carries both url and payload
C1_Witness ==
    \E t \in Tasks :
        /\ response_json[t] # None
        /\ response_json[t][1] = [kind |-> "Object", error |-> "true",
                                  url |-> "text", payload |-> "text"]
        /\ ReturnedAbsence(t)

\* C2: whatever the two remote calls answer, call_download_api returns
\* without raising, and what it returns is a complete pair or (None, None),
\* never one part without the other.
C2_ReturnsWithoutRaising ==
    \A t \in Tasks :
        /\ pc[t] # "api_raised"
        /\ Returned(t) =>
              (result[t][1].audio_file = None <=> result[t][1].track_name = None)

\* C3: a body of exactly 50 MiB (52428800 bytes) is returned as a payload, a
\* body of 50 MiB + 1 byte is not, and a payload is returned only for a body
\* of at most 52428800 bytes.
C3_SizeCeiling ==
    \A t \in Tasks :
        (/\ pc[t] = "api_returned"
         /\ file_response[t] # None
         /\ file_response[t][1].kind = "OK"
         /\ file_response[t][1].readable)
        => LET n == file_response[t][1].size
           IN  /\ n = 52428800 => ReturnedPayload(t)
               /\ n = 52428801 => ReturnedAbsence(t)
               /\ ReturnedPayload(t) <=> n <= 52428800
               /\ ReturnedPayload(t) => result[t][1].audio_file[1].size = n

\* a body of exactly 50 MiB has come back as the payload
C3_Witness ==
    \E t \in Tasks :
        /\ file_response[t] # None
        /\ file_response[t][1].size = 52428800
        /\ ReturnedPayload(t)
        /\ result[t][1].audio_file[1].size = 52428800

\* C4: every payload that call_download_api returns, and so every payload
\* handed to the audio upload, has a non-empty body of at most 50 MiB.
C4_PayloadNonEmptyAndBounded ==
    \A t \in Tasks :
        ReturnedPayload(t) =>
            /\ result[t][1].audio_file[1].size > 0
            /\ result[t][1].audio_file[1].size <= 50 * MiB

\* C5: the name for https://open.spotify.com/track/xyz789 is the label
\* followed by xyz789, the name for the empty source URL is the fallback
\* Downloaded_Track, and the derivation raises nothing.
C5_NameDerivation ==
    \A t \in Tasks :
        track_name[t] # None =>
            /\ spotify_url[t] = HTTPS \o HOST \o TRACK \o SLASH \o XYZ789
                  => track_name[t][1] = LABEL \o XYZ789
            /\ spotify_url[t] = <<>> => track_name[t][1] = FALLBACK

\* C6: a fetched payload whose upload fails is reported with the
\* upload-failed reply and never with the download-failed edit; an absence
\* from the client is reported with the download-failed edit and never with
\* the upload-failed reply.
C6_DistinctReports ==
    \A t \in Tasks :
        /\ Has(t, "reply_audio:failed") =>
              /\ ReturnedPayload(t)
              /\ Has(t, "reply_text:upload_failed")
              /\ ~Has(t, "edit:download_failed")
        /\ (ReturnedAbsence(t) /\ pc[t] # "api_returned") =>
              /\ Has(t, "edit:download_failed")
              /\ ~Has(t, "reply_text:upload_failed")
              /\ ~Has(t, "reply_audio")

\* the upload of a fetched payload has failed and the handler has ended
C6_Witness ==
    \E t \in Tasks :
        /\ ReturnedPayload(t)
        /\ Has(t, "reply_audio:failed")
        /\ Ended(t)

\* C7: once call_download_api has returned a payload, the buffer is closed
\* on every way out of process_spotify_link: after the upload and the
\* success edit, after a failed upload, after a failed edit, and when the
\* upload-failed reply itself fails.
C7_BufferClosedOnExit ==
    \A t \in Tasks :
        (ReturnedPayload(t) /\ Ended(t)) =>
            /\ buffer[t] = "closed"
            /\ Has(t, "reply_text:upload_failed:failed") => pc[t] = "crashed"

\* the upload failed, the upload-failed reply failed too, the buffer is closed
C7_Witness ==
    \E t \in Tasks :
        /\ ReturnedPayload(t)
        /\ Has(t, "reply_audio:failed")
        /\ Has(t, "reply_text:upload_failed:failed")
        /\ pc[t] = "crashed"
        /\ buffer[t] = "closed"

\* C8: the conversion client is invoked, and a remote call made, only for a
\* text that holds a link of the grammar, at most once per message, and with
\* a URL that is itself in the grammar (and stands in the text).
C8_ClientOnlyForGrammarUrl ==
    \A t \in Tasks :
        /\ Count(t, "post") <= 1
        /\ Count(t, "get") <= 1
        /\ (pc[t] = "api_entry" \/ Has(t, "post") \/ Has(t, "get")) =>
              /\ InGrammar(spotify_url[t])
              /\ IsSubstring(spotify_url[t], user_text[t])
        /\ ~ContainsLink(user_text[t]) =>
              /\ ~Has(t, "post")
              /\ ~Has(t, "get")
              /\ pc[t] \notin {"api_entry", "phase1", "phase2"}

\* a link inside a longer text has reached the remote service
C8_Witness ==
    \E t \in Tasks :
        /\ Has(t, "get")
        /\ user_text[t] # spotify_url[t]
        /\ Len(user_text[t]) > Len(spotify_url[t])

\* C9 as stated: for every text without a recognizable link, the empty text
\* included, handle_message sends the reply that explains the URL format.
C9_NoLinkAlwaysReplied ==
    \A t \in Tasks :
        (pc[t] \notin {"absent", "dispatched"} /\ ~ContainsLink(user_text[t]))
        => Has(t, "reply_text:not_a_link")

\* C9 as amended: for every non-empty text without a recognizable link,
\* handle_message sends the reply that explains the URL format and nothing
\* else; for the empty text it returns and sends nothing.
C9_NoLinkRepliedUnlessEmpty ==
    \A t \in Tasks :
        (pc[t] \notin {"absent", "dispatched"} /\ ~ContainsLink(user_text[t]))
        => IF user_text[t] = <<>>
           THEN log[t] = <<>> /\ pc[t] = "done"
           ELSE /\ Has(t, "reply_text:not_a_link")
                /\ ~Has(t, "reply_text:status")
                /\ ~Has(t, "post")

\* a text with a link-like part that is not a link has been answered
C9_Witness ==
    \E t \in Tasks :
        /\ user_text[t] = LOOK \o HTTPS \o XHOST \o TRACK \o SLASH \o ABC123
        /\ Has(t, "reply_text:not_a_link:ok")
        /\ pc[t] = "done"

\* C10: while one handler waits on a Phase 1 or Phase 2 round-trip, the
\* handler of another dispatched message can take its next step.
C10_OthersRunDuringRoundTrip ==
    \A t, u \in Tasks :
        (/\ t # u
         /\ pc[t] \in {"phase1", "phase2"}
         /\ pc[u] \in {"dispatched", "await_not_a_link", "await_status",
                       "await_audio", "await_success_edit",
                       "await_upload_failed_reply", "await_failed_edit"})
        => CanResume(u)

----------------------------------------------------------------------------
(* C11 .. C17                                                              *)

\* the substrings of the text that are in the grammar, as <<first, last>>
Links(text) ==
    {ij \in (1..Len(text)) \X (1..Len(text)) :
        /\ ij[1] <= ij[2]
        /\ Lit(text, ij[1], HTTP)
        /\ InGrammar(SubSeq(text, ij[1], ij[2]))}

\* the first link of the text: none starts before it, none that starts with
\* it is longer
FirstLink(text) ==
    LET ij == CHOOSE x \in Links(text) :
                  \A y \in Links(text) :
                      x[1] < y[1] \/ (x[1] = y[1] /\ x[2] >= y[2])
    IN  SubSeq(text, ij[1], ij[2])

\* the validator has run on the text of t and found a URL
ValidatorMatched(t) == Has(t, "reply_text:status")
ValidatorNoMatch(t) == Has(t, "reply_text:not_a_link")

\* C11: for a text that holds a link of the grammar, the validator returns
\* the first such link as the URL; for a text that holds none it returns
\* no-match; a link without http/https is not matched, and a text that is
\* exactly a URL of the grammar is matched in full.
\* (Read where handle_message has just acted on the validator's answer; the
\* text and the URL do not change afterwards.)
C11_ValidatorReturnsFirstLink ==
    \A t \in Tasks :
        pc[t] \in {"await_status", "await_not_a_link"} =>
            /\ Links(user_text[t]) # {} =>
                  /\ ValidatorMatched(t) /\ ~ValidatorNoMatch(t)
                  /\ spotify_url[t] = FirstLink(user_text[t])
            /\ Links(user_text[t]) = {} =>
                  ValidatorNoMatch(t) /\ ~ValidatorMatched(t)
            /\ user_text[t] = NO_SCHEME => ValidatorNoMatch(t)
            /\ InGrammar(user_text[t]) => spotify_url[t] = user_text[t]

\* of two links in one text the first has been taken
C11_Witness ==
    \E t \in Tasks :
        /\ user_text[t] = HTTPS \o HOST \o ALBUM \o SLASH \o XYZ789 \o THANKS
                          \o HTTP \o HOST \o TRACK \o SLASH \o ABC123
        /\ ValidatorMatched(t)
        /\ spotify_url[t] = HTTPS \o HOST \o ALBUM \o SLASH \o XYZ789

\* the first position of event e in the log of t, 0 when it is not there
Index(t, e) ==
    IF Has(t, e) THEN CHOOSE i \in DOMAIN log[t] :
                          log[t][i] = e /\ \A j \in 1..(i - 1) : log[t][j] # e
    ELSE 0

\* e stands in the log of t, and before every f
Before(t, e, f) == Has(t, e) /\ (Has(t, f) => Index(t, e) < Index(t, f))

\* what the two remote calls of t answered
Phase1Answer(t) == response_json[t][1]
Phase2Answer(t) == file_response[t][1]
Phase1Answered(t) == response_json[t] # None
Phase2Answered(t) == file_response[t] # None

\* Phase 1 came back with a body the client goes on with
Phase1Succeeded(t) ==
    /\ Phase1Answered(t)
    /\ Phase1Answer(t).kind = "Object"
    /\ Phase1Answer(t).error # "true"
    /\ Phase1Answer(t).url = "text"
    /\ Phase1Answer(t).payload = "text"

\* Phase 2 came back with a whole body
Phase2Succeeded(t) ==
    /\ Phase2Answered(t)
    /\ Phase2Answer(t).kind = "OK"
    /\ Phase2Answer(t).readable

\* one of the two phases has failed
PhaseFailed(t) ==
    \/ Phase1Answered(t) /\ ~Phase1Succeeded(t)
    \/ Phase2Answered(t) /\ ~Phase2Succeeded(t)

\* C12: one invocation of call_download_api issues exactly one POST and at
\* most one GET, the GET only after the POST has come back with success;
\* after a failure of either phase no further remote call is made, and the
\* failure surfaces at once as absence.
C12_OnePostOneGetNoRetry ==
    \A t \in Tasks :
        /\ pc[t] \in {"phase1", "phase2", "api_returned", "api_raised"}
              => Count(t, "post") = 1
        /\ Count(t, "get") <= 1
        /\ Has(t, "get") => (Before(t, "post", "get") /\ Phase1Succeeded(t))
        /\ (Phase1Answered(t) /\ ~Phase1Succeeded(t)) => ~Has(t, "get")
        /\ PhaseFailed(t) => (pc[t] = "api_returned" /\ ReturnedAbsence(t))

\* C13: a Phase 1 body with a success status is accepted only if its error
\* flag is falsy or absent: with any truthy error value, not only the
\* boolean true, the client returns absence without issuing Phase 2, even
\* when url and payload are both there.
C13_TruthyErrorRejected ==
    \A t \in Tasks :
        (/\ Phase1Answered(t)
         /\ Phase1Answer(t).kind = "Object"
         /\ Truthy(Phase1Answer(t).error))
        => /\ ~Has(t, "get")
           /\ pc[t] = "api_returned"
           /\ ReturnedAbsence(t)

\* the entries of the log of t that say how call_download_api failed
FailureEntries(t) ==
    {log[t][i] : i \in DOMAIN log[t]}
    \cap {"except:Timeout", "except:RequestException", "except:Exception",
          "error:step1", "error:missing", "error:too_large"}

\* C14: a timeout of the Phase 1 call, and likewise of the Phase 2 call, is
\* handled by the timeout clause of call_download_api, not by the clause
\* that handles non-success statuses nor by the error-body branch, and it
\* yields absence.
C14_TimeoutTakesTimeoutClause ==
    \A t \in Tasks :
        /\ (Phase1Answered(t) /\ Phase1Answer(t).kind = "Timeout") =>
              /\ FailureEntries(t) = {"except:Timeout"}
              /\ ~Has(t, "get")
              /\ ReturnedAbsence(t)
        /\ (Phase2Answered(t) /\ Phase2Answer(t).kind = "Timeout") =>
              /\ FailureEntries(t) = {"except:Timeout"}
              /\ ReturnedAbsence(t)
        /\ Has(t, "except:Timeout") =>
              \/ Phase1Answer(t).kind = "Timeout"
              \/ Phase2Answered(t) /\ Phase2Answer(t).kind = "Timeout"

\* the Phase 1 call has timed out and the client has returned absence
C14_Witness ==
    \E t \in Tasks :
        /\ Phase1Answered(t)
        /\ Phase1Answer(t).kind = "Timeout"
        /\ log[t] = <<"post", "except:Timeout">>
        /\ ReturnedAbsence(t)

\* C15: for a message with a link, the progress reply is sent before
\* Phase 1 starts, Phase 1 comes before Phase 2, the audio is uploaded only
\* after Phase 2 has given a payload, and the status is edited to the
\* success text only after the upload has completed; the success edit never
\* happens on a run in which the fetch or the upload failed.
C15_HappyPathOrder ==
    \A t \in Tasks :
        /\ Has(t, "post") =>
              /\ Before(t, "reply_text:status", "post")
              /\ Before(t, "reply_text:status:ok", "post")
        /\ Has(t, "get") => Before(t, "post", "get")
        /\ Has(t, "reply_audio") =>
              /\ Before(t, "get", "reply_audio")
              /\ Phase2Succeeded(t)
              /\ ReturnedPayload(t)
        /\ Has(t, "edit:success") =>
              /\ Before(t, "reply_audio", "edit:success")
              /\ Before(t, "reply_audio:ok", "edit:success")
              /\ ReturnedPayload(t)
              /\ ~Has(t, "reply_audio:failed")
              /\ ~PhaseFailed(t)

\* the whole happy path for the link of a real track and a body of 2 MiB
C15_Witness ==
    \E t \in Tasks :
        /\ user_text[t] = HTTPS \o HOST \o TRACK \o SLASH \o LONG_ID
        /\ ReturnedPayload(t)
        /\ result[t][1].audio_file[1].size = 2 * MiB
        /\ log[t] = <<"reply_text:status", "reply_text:status:ok", "post", "get",
                      "reply_audio", "reply_audio:ok", "edit:success",
                      "edit:success:ok", "close">>
        /\ pc[t] = "done"

\* the calls to the chat platform that process_spotify_link issues after the
\* progress reply
IsOutcomeCall(e) ==
    e \in {"reply_audio", "edit:success", "reply_text:upload_failed",
           "edit:download_failed"}
OutcomeCalls(t) == SelectSeq(log[t], IsOutcomeCall)

\* C16: whenever call_download_api returns absence, process_spotify_link
\* makes exactly one status edit and no audio upload, and the edit is the
\* same whatever the failure was.
C16_AbsenceOneEdit ==
    \A t \in Tasks :
        (ReturnedAbsence(t) /\ pc[t] # "api_returned") =>
            /\ OutcomeCalls(t) = <<"edit:download_failed">>
            /\ buffer[t] = "none"

\* an oversize body has been answered with the download-failed edit
C16_Witness ==
    \E t \in Tasks :
        /\ ReturnedAbsence(t)
        /\ Has(t, "error:too_large")
        /\ OutcomeCalls(t) = <<"edit:download_failed">>
        /\ pc[t] = "done"

\* C17: the reply that the file was downloaded but not uploaded is sent
\* only on a run in which the audio upload itself failed; after an upload
\* that succeeded it is never sent, whatever happens to the status edit.
C17_UploadFailedReplyOnlyAfterFailedUpload ==
    \A t \in Tasks :
        /\ Has(t, "reply_text:upload_failed") => Has(t, "reply_audio:failed")
        /\ Has(t, "reply_audio:ok") => ~Has(t, "reply_text:upload_failed")

====
